---- MODULE Spec2Model ----
(***************************************************************************)
(* A model of app.py of the DCA dashboard: the memoized loaders            *)
(* (load_data, fetch_rainfall_data), the rainfall scraper, and the price   *)
(* query update_graph_and_table.                                           *)
(*                                                                         *)
(* Dates are day numbers; day 0 is a Monday, so weekday(d) = d % 7 with    *)
(* Monday = 0 ... Friday = 4, Saturday = 5, Sunday = 6 (pandas' weekday).  *)
(* Floats are exact fractions [n, d] with d > 0; NaN is the fraction with  *)
(* d = 0, and every arithmetic operator propagates it as IEEE NaN does.    *)
(***************************************************************************)
EXTENDS Integers, Sequences, FiniteSets, TLC

VARIABLES
    \* load_data and the module-level statements after it (lines 21-59)
    workbook, lpc, df_long, min_date, max_date, three_months_ago, df_long_default,
    \* update_graph_and_table (lines 194-250)
    qpc, qargs, fref, qheap, filtered, outcome, fig, table, columns,
    \* fetch_rainfall_data on its own (lines 67-97)
    page, fpc, url, fetch_outcome, fetch_df, http_requests,
    \* the memoized calls (lines 17-21, 50, 66-67, 260)
    now, cache, imported, tpc, tcall, tlocal, tret, nruns, completed, race

loadVars == <<workbook, lpc, df_long, min_date, max_date, three_months_ago,
              df_long_default>>
queryVars == <<qpc, qargs, fref, qheap, filtered, outcome, fig, table, columns>>
fetchVars == <<page, fpc, url, fetch_outcome, fetch_df, http_requests>>
cacheVars == <<now, cache, imported, tpc, tcall, tlocal, tret, nruns, completed,
               race>>
vars == <<loadVars, queryVars, fetchVars, cacheVars>>

(***************************************************************************)
(* Bounds of the model.                                                    *)
(***************************************************************************)
\* Weeks of observations in the workbooks the price queries run on.
NumWeeks == 15
\* Most date columns of a workbook block given to load_data on its own.
MaxCols == 3
\* Largest distance in days between two consecutive date columns there.
MaxGap == 5
\* Most entries of the "areas" literal of a page.
MaxAreas == 2
\* Requests served at the same time.
NumThreads == 2
\* Queries served at the same time.
NumQueries == 2
\* Most runs of fetch_rainfall_data that complete.
MaxRuns == 3
\* The clock advances in steps of TickStep seconds.
TickStep == 150

(***************************************************************************)
(* Floats.                                                                 *)
(***************************************************************************)
NaN == [n |-> 0, d |-> 0]

IsNaN(x) == x.d = 0

Abs(i) == IF i < 0 THEN -i ELSE i

RECURSIVE GCD(_, _)
GCD(a, b) == IF b = 0 THEN a ELSE GCD(b, a % b)

\* The float n/d (d # 0), in lowest terms with a positive denominator.
Frac(n, d) ==
    LET g == GCD(Abs(n), Abs(d))
        s == IF d < 0 THEN -1 ELSE 1
    IN  [n |-> s * (n \div g), d |-> s * (d \div g)]

Num(i) == [n |-> i, d |-> 1]

FAdd(x, y) == IF IsNaN(x) \/ IsNaN(y) THEN NaN
              ELSE Frac(x.n * y.d + y.n * x.d, x.d * y.d)

FSub(x, y) == IF IsNaN(x) \/ IsNaN(y) THEN NaN
              ELSE Frac(x.n * y.d - y.n * x.d, x.d * y.d)

FMul(x, y) == IF IsNaN(x) \/ IsNaN(y) THEN NaN
              ELSE Frac(x.n * y.n, x.d * y.d)

\* x / y; 0/0 is NaN as in IEEE arithmetic (prices of the model are positive,
\* so no other division by zero arises).
FDiv(x, y) == IF IsNaN(x) \/ IsNaN(y) \/ y.n = 0 THEN NaN
              ELSE Frac(x.n * y.d, x.d * y.n)

\* DataFrame.round(2): the nearest multiple of 0.01, ties to even.
Round2(x) ==
    IF IsNaN(x) THEN NaN
    ELSE LET num == 100 * x.n
             q   == num \div x.d
             r   == num - q * x.d
             h   == IF 2 * r < x.d THEN q
                    ELSE IF 2 * r > x.d THEN q + 1
                    ELSE IF q % 2 = 0 THEN q ELSE q + 1
         IN  Frac(h, 100)

(***************************************************************************)
(* Sequences.                                                              *)
(***************************************************************************)
Range(s) == {s[i] : i \in DOMAIN s}

RECURSIVE SetToSeq(_)
\* The integers of S in increasing order.
SetToSeq(S) ==
    IF S = {} THEN <<>>
    ELSE LET m == CHOOSE x \in S : \A y \in S : x <= y
         IN  <<m>> \o SetToSeq(S \ {m})

RECURSIVE Flatten(_)
Flatten(ss) == IF ss = <<>> THEN <<>> ELSE Head(ss) \o Flatten(Tail(ss))

\* DataFrame.tail(k)
tail(s, k) == IF Len(s) <= k THEN s ELSE SubSeq(s, Len(s) - k + 1, Len(s))

(***************************************************************************)
(* load_data (lines 21-47).                                                *)
(***************************************************************************)
\* The part of the melt's value_vars (lines 35-38) the model carries, in the
\* order of that list.
value_vars == <<"Potato", "Onion">>

Commodities == Range(value_vars)

\* Python's string order on the commodity names (sort_values, line 44; the
\* group and pivot keys of lines 223 and 233).
LexRank(c) == CASE c = "Onion" -> 1 [] c = "Potato" -> 2

\* df.dropna() (line 28): a row with any missing cell is removed.
dropna_rows(rows) ==
    SelectSeq(rows, LAMBDA r : \A c \in Commodities : ~IsNaN(r.Cells[c]))

\* df[~df.index.weekday.isin([5, 6])] (line 30)
drop_weekend(rows) == SelectSeq(rows, LAMBDA r : (r.Date % 7) \notin {5, 6})

\* The Friday that closes the W-FRI bin of day d.
WeekEndingFriday(d) == d + ((4 - (d % 7)) % 7)

\* Series.mean() of a bin: NaN for an empty bin.
RECURSIVE FSum(_)
FSum(xs) == IF xs = <<>> THEN Num(0) ELSE FAdd(Head(xs), FSum(Tail(xs)))

mean(xs) == IF xs = <<>> THEN NaN ELSE FDiv(FSum(xs), Num(Len(xs)))

\* df.resample("W-FRI").mean() (line 31): one row per Friday from the bin of
\* the first row to the bin of the last, every bin in between included.
resample_mean(rows) ==
    IF rows = <<>> THEN <<>>
    ELSE LET first == WeekEndingFriday(rows[1].Date)
             last  == WeekEndingFriday(rows[Len(rows)].Date)
             nbins == ((last - first) \div 7) + 1
             bin(f) == SelectSeq(rows, LAMBDA r : WeekEndingFriday(r.Date) = f)
         IN  [k \in 1..nbins |->
                LET f == first + 7 * (k - 1)
                IN  [Date |-> f,
                     Cells |-> [c \in Commodities |->
                        mean([i \in 1..Len(bin(f)) |-> bin(f)[i].Cells[c]])]]]

\* df.reset_index().melt(...) (lines 33-43): for each commodity of value_vars
\* in turn, one record per date.
melt(rows) ==
    Flatten([j \in 1..Len(value_vars) |->
        [i \in 1..Len(rows) |->
            [Date |-> rows[i].Date, Commodity |-> value_vars[j],
             Price |-> rows[i].Cells[value_vars[j]]]]])

RowLess(a, b) ==
    \/ a.Date < b.Date
    \/ a.Date = b.Date /\ LexRank(a.Commodity) < LexRank(b.Commodity)

RECURSIVE Insert(_, _)
Insert(r, s) ==
    IF s = <<>> THEN <<r>>
    ELSE IF RowLess(r, Head(s)) THEN <<r>> \o s
    ELSE <<Head(s)>> \o Insert(r, Tail(s))

RECURSIVE sort_values(_)
\* df_long.sort_values(['Date', 'Commodity']) (line 44)
sort_values(s) == IF s = <<>> THEN <<>> ELSE Insert(Head(s), sort_values(Tail(s)))

load_data(block) ==
    sort_values(melt(resample_mean(drop_weekend(dropna_rows(block)))))

(***************************************************************************)
(* Module level, after the load (lines 50-59).                             *)
(***************************************************************************)
Dates(frame) == {frame[i].Date : i \in DOMAIN frame}

Min(S) == CHOOSE x \in S : \A y \in S : x <= y

Max(S) == CHOOSE x \in S : \A y \in S : x >= y

\* pd.DateOffset(months=3) (line 55) is a calendar offset: between 89 and 92
\* days, depending on the months it crosses.
ThreeMonthSpans == 89..92

\* df_long[df_long['Date'] >= three_months_ago] (line 59)
slice_from(frame, day) == SelectSeq(frame, LAMBDA r : r.Date >= day)

(***************************************************************************)
(* update_graph_and_table (lines 194-250).                                 *)
(***************************************************************************)
Labels == <<"Three weeks ago", "Two weeks ago", "Previous week", "Latest week">>

\* The frames a step of the handler can reach, by reference: df_long and
\* df_long_default (lines 50, 59) first, then the frames the handler itself
\* has built.
df_long_ref == 1

df_long_default_ref == 2

\* A new frame; the reference to it.
alloc(st, frame) == [st |-> Append(st, frame), ref |-> Len(st) + 1]

\* The rows of a frame a boolean mask keeps.
take(frame, mask) ==
    LET marked == [i \in DOMAIN frame |-> [row |-> frame[i], keep |-> mask[i]]]
        kept == SelectSeq(marked, LAMBDA m : m.keep)
    IN  [k \in DOMAIN kept |-> kept[k].row]

\* A filter that drops the other rows from the frame itself.
getitem_inplace(st, ref, mask) ==
    [st |-> [st EXCEPT ![ref] = take(st[ref], mask)], ref |-> ref]

\* frame[mask] (lines 202-208, 213, 226): boolean indexing builds a new
\* frame and leaves the indexed one as it is.
getitem(st, ref, mask) == alloc(st, take(st[ref], mask))

\* frame.copy() (lines 213, 226)
copy(st, ref) == alloc(st, st[ref])

\* frame['Price'] = values (line 215): a write to the frame referred to.
setitem_Price(st, ref, values) ==
    [st EXCEPT ![ref] = [i \in DOMAIN st[ref] |-> [st[ref][i] EXCEPT !.Price = values[i]]]]

\* frame['Pct_Change'] = values (line 227): a new column of the frame
\* referred to.
setitem_Pct_Change(st, ref, values) ==
    [st EXCEPT ![ref] = [i \in DOMAIN st[ref] |->
        [Date |-> st[ref][i].Date, Commodity |-> st[ref][i].Commodity,
         Price |-> st[ref][i].Price, Days |-> st[ref][i].Days,
         Pct_Change |-> values[i]]]]

\* frame['Date'] = values (line 232)
setitem_Date(st, ref, values) ==
    [st EXCEPT ![ref] = [i \in DOMAIN st[ref] |-> [st[ref][i] EXCEPT !.Date = values[i]]]]

\* pd.concat(frames) (lines 217, 231): a new frame.
concat(st, refs) == alloc(st, Flatten([i \in DOMAIN refs |-> st[refs[i]]]))

\* frame['Commodity'].isin(sel) & (frame['Date'] >= start) & (frame['Date'] <= end)
window_mask(frame, sel, start, end) ==
    [i \in DOMAIN frame |-> /\ frame[i].Commodity \in Range(sel)
                            /\ frame[i].Date >= start
                            /\ frame[i].Date <= end]

\* frame['Commodity'] == commodity (lines 213, 226)
commodity_mask(frame, c) == [i \in DOMAIN frame |-> frame[i].Commodity = c]

\* Lines 201-208 without the branch: always the pre-sliced table.
filter_rows_default_only(st, tma, sel, start, end) ==
    getitem(st, df_long_default_ref,
            window_mask(st[df_long_default_ref], sel, start, end))

\* Lines 201-208: the full table when the window starts before
\* three_months_ago, the pre-sliced one otherwise.
filter_rows(st, tma, sel, start, end) ==
    IF start < tma
    THEN getitem(st, df_long_ref, window_mask(st[df_long_ref], sel, start, end))
    ELSE getitem(st, df_long_default_ref,
                 window_mask(st[df_long_default_ref], sel, start, end))

\* The rows of a frame for one commodity.
of_commodity(frame, c) == take(frame, commodity_mask(frame, c))

\* Line 215: every price divided by the first and multiplied by 100.
rebase(prices) ==
    [i \in DOMAIN prices |-> FMul(FDiv(prices[i], prices[1]), Num(100))]

\* The result of a call on a frame reference, copied.
copy_of(got) == copy(got.st, got.ref)

\* frame[frame['Commodity'] == commodity].copy() (lines 213, 226)
commodity_copy(st, ref, c) == copy_of(getitem(st, ref, commodity_mask(st[ref], c)))

\* frame['Price']
prices_of(frame) == [k \in DOMAIN frame |-> frame[k].Price]

\* The handler goes on with filtered_df_long bound to the new frame.
rebound(got) == [error |-> "", st |-> got.st, ref |-> got.ref]

RECURSIVE normalize_loop(_, _, _, _, _)
\* Lines 214-216 on commodity_df, the copy of the i-th selected commodity's
\* rows: Series.iloc[0] of a copy without rows raises IndexError; otherwise
\* the price column of the copy is overwritten and the loop goes on.
normalize_commodity(commodity_df, filtered_df_long, sel, i, normalized_df_list) ==
    IF Len(commodity_df.st[commodity_df.ref]) = 0
    THEN [error |-> "IndexError", st |-> commodity_df.st, ref |-> filtered_df_long]
    ELSE normalize_loop(
            setitem_Price(commodity_df.st, commodity_df.ref,
                          rebase(prices_of(commodity_df.st[commodity_df.ref]))),
            filtered_df_long, sel, i + 1, Append(normalized_df_list, commodity_df.ref))

\* Lines 212-216 from the i-th selected commodity on, then line 217: the
\* copies are concatenated in the order of the selection.
normalize_loop(st, filtered_df_long, sel, i, normalized_df_list) ==
    IF i > Len(sel)
    THEN rebound(concat(st, normalized_df_list))
    ELSE normalize_commodity(commodity_copy(st, filtered_df_long, sel[i]),
                             filtered_df_long, sel, i, normalized_df_list)

\* Lines 210-217: with 'normalize' the name filtered_df_long is bound to the
\* concatenation, without it nothing happens.
normalize_rows(st, filtered_df_long, sel, normalize) ==
    IF normalize THEN normalize_loop(st, filtered_df_long, sel, 1, <<>>)
    ELSE [error |-> "", st |-> st, ref |-> filtered_df_long]

\* The commodities of a frame in Python's string order: the group keys of
\* line 223 and the index of the pivot of line 233.
sorted_keys(frame) ==
    LET present == {frame[i].Commodity : i \in DOMAIN frame}
        ranks == SetToSeq({LexRank(c) : c \in present})
    IN  [k \in DOMAIN ranks |-> CHOOSE c \in present : LexRank(c) = ranks[k]]

\* Line 223: groupby('Commodity').apply(lambda x: x.tail(5))
latest_rows(frame) ==
    LET keys == sorted_keys(frame)
    IN  Flatten([k \in DOMAIN keys |-> tail(of_commodity(frame, keys[k]), 5)])

\* The forward fill Series.pct_change applies first (fill_method='pad', its
\* default in every pandas release that still runs line 223).
RECURSIVE pad(_)
pad(xs) ==
    IF Len(xs) <= 1 THEN xs
    ELSE LET front == pad(SubSeq(xs, 1, Len(xs) - 1))
             x == xs[Len(xs)]
         IN  Append(front, IF IsNaN(x) THEN front[Len(front)] ELSE x)

\* Series.pct_change() * 100 (line 227): data / data.shift(1) - 1 on the
\* padded data; the first value has no predecessor and is NaN.
pct_change100(xs) ==
    LET data == pad(xs)
    IN  [i \in DOMAIN xs |->
            IF i = 1 THEN NaN
            ELSE FMul(FSub(FDiv(data[i], data[i - 1]), Num(1)), Num(100))]

RECURSIVE pct_change_loop(_, _, _, _, _)
\* Line 228: commodity_df.tail(4), a new frame, joins the list.
append_tail4(last4, latest_4_weeks_df, sel, i, pct_change_table_data) ==
    pct_change_loop(last4.st, latest_4_weeks_df, sel, i + 1,
                    Append(pct_change_table_data, last4.ref))

\* Line 227 on commodity_df, the copy of the i-th selected commodity's rows
\* of latest_4_weeks_df: the copy gets the column Pct_Change.
pct_change_commodity(commodity_df, latest_4_weeks_df, sel, i, pct_change_table_data) ==
    append_tail4(
        alloc(setitem_Pct_Change(commodity_df.st, commodity_df.ref,
                  pct_change100(prices_of(commodity_df.st[commodity_df.ref]))),
              tail(setitem_Pct_Change(commodity_df.st, commodity_df.ref,
                       pct_change100(prices_of(commodity_df.st[commodity_df.ref])))
                   [commodity_df.ref], 4)),
        latest_4_weeks_df, sel, i, pct_change_table_data)

\* Lines 225-228 from the i-th selected commodity on, then the concat of
\* line 231.
pct_change_loop(st, latest_4_weeks_df, sel, i, pct_change_table_data) ==
    IF i > Len(sel)
    THEN concat(st, pct_change_table_data)
    ELSE pct_change_commodity(commodity_copy(st, latest_4_weeks_df, sel[i]),
                              latest_4_weeks_df, sel, i, pct_change_table_data)

\* Line 231: [['Commodity', 'Date', 'Pct_Change']].dropna(), a new frame.
pct_change_columns(got) ==
    alloc(got.st,
          SelectSeq([i \in DOMAIN got.st[got.ref] |->
                        [Commodity |-> got.st[got.ref][i].Commodity,
                         Date |-> got.st[got.ref][i].Date,
                         Pct_Change |-> got.st[got.ref][i].Pct_Change]],
                    LAMBDA r : ~IsNaN(r.Pct_Change)))

\* Line 232: pct_change_df['Date'] = pd.to_datetime(pct_change_df['Date'])
with_datetime(pct_change_df) ==
    [st |-> setitem_Date(pct_change_df.st, pct_change_df.ref,
                [i \in DOMAIN pct_change_df.st[pct_change_df.ref] |->
                    pct_change_df.st[pct_change_df.ref][i].Date]),
     ref |-> pct_change_df.ref]

\* Line 223: groupby('Commodity').apply(...).reset_index(drop=True), a new
\* frame.
latest_4_weeks(st, filtered_df_long) == alloc(st, latest_rows(st[filtered_df_long]))

\* Lines 225-231 on latest_4_weeks_df.
pct_changes(latest_4_weeks_df, sel) ==
    pct_change_loop(latest_4_weeks_df.st, latest_4_weeks_df.ref, sel, 1, <<>>)

\* Lines 223-232: the frames as they are with pct_change_df built.
pct_change_rows(st, filtered_df_long, sel) ==
    with_datetime(pct_change_columns(pct_changes(latest_4_weeks(st, filtered_df_long), sel)))

\* Lines 233-238: the pivot has one column per date of pct_change_df, in
\* date order; naming the columns with the 4 labels raises ValueError unless
\* there are exactly 4. A (commodity, date) pair without a row is NaN.
pivot_table(pct_df) ==
    LET dates == SetToSeq({pct_df[i].Date : i \in DOMAIN pct_df})
        keys == sorted_keys(pct_df)
        cell(c, d) ==
            IF \E i \in DOMAIN pct_df : pct_df[i].Commodity = c /\ pct_df[i].Date = d
            THEN (CHOOSE r \in Range(pct_df) : r.Commodity = c /\ r.Date = d).Pct_Change
            ELSE NaN
    IN  IF Len(dates) # Len(Labels)
        THEN [error |-> "ValueError", data |-> <<>>, dates |-> <<>>]
        ELSE [error |-> "",
              data |-> [k \in DOMAIN keys |->
                          [Commodity |-> keys[k],
                           cells |-> [j \in DOMAIN Labels |-> Round2(cell(keys[k], dates[j]))]]],
              dates |-> dates]

\* What the handler has answered: nothing yet.
NoResult == [outcome |-> "none", fig |-> <<>>, table |-> <<>>, columns |-> <<>>]

\* Lines 233-250: the answer with the pivot, or the exception of line 235.
answer(st, pivoted, fig_rows) ==
    IF pivoted.error # ""
    THEN [st |-> st, result |-> [NoResult EXCEPT !.outcome = pivoted.error]]
    ELSE [st |-> st,
          result |-> [outcome |-> "ok", fig |-> fig_rows,
                      table |-> pivoted.data, columns |-> pivoted.dates]]

\* The pivot of pct_change_df.
pivot_of(pct_change_df, fig_rows) ==
    answer(pct_change_df.st, pivot_table(pct_change_df.st[pct_change_df.ref]), fig_rows)

\* Lines 219-250 on the frame filtered_df_long refers to: outcome "ok" with
\* the figure's rows, the table and the dates of its columns, or the
\* exception that ends the handler; and the frames as the lines leave them.
table_step(st, filtered_df_long, sel) ==
    pivot_of(pct_change_rows(st, filtered_df_long, sel), st[filtered_df_long])

(***************************************************************************)
(* Inputs.                                                                 *)
(***************************************************************************)
\* The daily price of the sheet, for the workbooks the queries run on.
DailyPrice(c, d) ==
    CASE c = "Onion"  -> Num(30 + ((5 * d) % 13))
      [] c = "Potato" -> Num(20 + ((3 * d) % 11))

\* A workbook with a Monday and a Friday column in each of NumWeeks weeks,
\* but none in the weeks of `gaps`.
WeeklyWorkbook(gaps) ==
    LET days == SetToSeq({7 * w + o : w \in (0..(NumWeeks - 1)) \ gaps, o \in {0, 4}})
    IN  [i \in DOMAIN days |->
            [Date |-> days[i], Cells |-> [c \in Commodities |-> DailyPrice(c, days[i])]]]

\* No week without observations, or one in the middle: the windows of the
\* queries put it at every place among a commodity's last points.
GapChoices == {{}, {NumWeeks \div 2}}

CellValues == {NaN, Num(10), Num(30)}

RECURSIVE SumTo(_, _)
SumTo(f, k) == IF k = 0 THEN 0 ELSE f[k] + SumTo(f, k - 1)

\* A block of n date columns in date order: the first on day d0, each next
\* one gaps[i] days after the one before.
SmallBlock(n, d0, gaps, cells) ==
    [i \in 1..n |-> [Date |-> d0 + SumTo(gaps, i - 1), Cells |-> cells[i]]]

\* The values of the multi-select dropdown (line 118): lists without repeats.
Selections ==
    {<<>>} \cup {<<c>> : c \in Commodities}
           \cup {p \in Commodities \X Commodities : p[1] # p[2]}

\* The slider's values (lines 131-137, step 1) the model draws from: the days
\* of the weekly dates and the days after them.
SliderStops == {v \in 0..(max_date - min_date) : v % 7 <= 1}

\* The ranges of the slider: a pair of stops in order.
SliderRanges == {r \in SliderStops \X SliderStops : r[1] <= r[2]}

\* The requests of concurrent queries: a selection of one or two
\* commodities, and a range up to the last date that starts on the first date
\* (filtered by the full table) or two weeks later (by the pre-sliced one).
RaceSelections == {<<"Onion">>, <<"Potato", "Onion">>}

RaceRanges == {<<0, max_date - min_date>>, <<14, max_date - min_date>>}

QueryThreads == 1..NumQueries

(***************************************************************************)
(* Actions.                                                                *)
(***************************************************************************)
NoArgs == [selected |-> <<>>, normalize |-> FALSE, range |-> <<0, 0>>]

InitQueryVars ==
    /\ qpc = [t \in QueryThreads |-> "idle"]
    /\ qargs = [t \in QueryThreads |-> NoArgs]
    /\ fref = [t \in QueryThreads |-> 0]
    /\ qheap = [t \in QueryThreads |-> <<>>]
    /\ filtered = [t \in QueryThreads |-> <<>>]
    /\ outcome = [t \in QueryThreads |-> "none"]
    /\ fig = [t \in QueryThreads |-> <<>>]
    /\ table = [t \in QueryThreads |-> <<>>]
    /\ columns = [t \in QueryThreads |-> <<>>]

InitLoadVars ==
    /\ lpc = "start"
    /\ df_long = <<>>
    /\ min_date = 0
    /\ max_date = 0
    /\ three_months_ago = 0
    /\ df_long_default = <<>>

\* Line 50: df_long = load_data()
LoadData ==
    /\ lpc = "start"
    /\ df_long' = load_data(workbook)
    /\ lpc' = "loaded"
    /\ UNCHANGED <<workbook, min_date, max_date, three_months_ago, df_long_default>>
    /\ UNCHANGED <<queryVars, fetchVars, cacheVars>>

\* Lines 53-59. With an empty table the dates are NaT and building the
\* layout raises (line 136): the application does not start.
ModuleInit ==
    /\ lpc = "loaded"
    /\ df_long # <<>>
    /\ \E span \in ThreeMonthSpans :
        LET mn == Min(Dates(df_long))
            mx == Max(Dates(df_long))
            with_days == [i \in DOMAIN df_long |->
                            [Date |-> df_long[i].Date,
                             Commodity |-> df_long[i].Commodity,
                             Price |-> df_long[i].Price,
                             Days |-> df_long[i].Date - mn]]
        IN  /\ min_date' = mn
            /\ max_date' = mx
            /\ three_months_ago' = mx - span
            /\ df_long' = with_days
            /\ df_long_default' = slice_from(with_days, mx - span)
    /\ lpc' = "ready"
    /\ UNCHANGED workbook
    /\ UNCHANGED <<queryVars, fetchVars, cacheVars>>

\* The frames a step of request t works on: the shared two, then its own.
frames_of(t) == <<df_long, df_long_default>> \o qheap[t]

\* The frames of request t after a step that leaves filtered_df_long bound to
\* ref: of its own frames the bound one stays, the others are unreachable.
own_frames(st, ref) == IF ref > df_long_default_ref THEN <<st[ref]>> ELSE <<>>

own_ref(ref) == IF ref > df_long_default_ref THEN df_long_default_ref + 1 ELSE ref

\* Lines 194-208 of one request to the callback of lines 186-194: the
\* arguments, the return of line 196 on an empty selection, the filter.
Begin(t, selections, ranges) ==
    /\ lpc = "ready"
    /\ qpc[t] = "idle"
    /\ \E sel \in selections, normalize \in BOOLEAN, range \in ranges :
        /\ qargs' = [qargs EXCEPT ![t] =
                        [selected |-> sel, normalize |-> normalize, range |-> range]]
        /\ IF sel = <<>>
           THEN /\ qpc' = [qpc EXCEPT ![t] = "done"]
                /\ outcome' = [outcome EXCEPT ![t] = "ok"]
                /\ UNCHANGED <<df_long, df_long_default, fref, qheap, filtered>>
           ELSE \E got \in {filter_rows(frames_of(t), three_months_ago, sel,
                                        min_date + range[1], min_date + range[2])} :
                /\ df_long' = got.st[df_long_ref]
                /\ df_long_default' = got.st[df_long_default_ref]
                /\ fref' = [fref EXCEPT ![t] = own_ref(got.ref)]
                /\ qheap' = [qheap EXCEPT ![t] = own_frames(got.st, got.ref)]
                /\ filtered' = [filtered EXCEPT ![t] = got.st[got.ref]]
                /\ qpc' = [qpc EXCEPT ![t] = "filtered"]
                /\ UNCHANGED outcome
    /\ UNCHANGED <<fig, table, columns>>
    /\ UNCHANGED <<workbook, lpc, min_date, max_date, three_months_ago>>
    /\ UNCHANGED <<fetchVars, cacheVars>>

\* Lines 210-217 of request t.
Normalize(t) ==
    /\ qpc[t] = "filtered"
    /\ \E got \in {normalize_rows(frames_of(t), fref[t], qargs[t].selected,
                                   qargs[t].normalize)} :
        /\ df_long' = got.st[df_long_ref]
        /\ df_long_default' = got.st[df_long_default_ref]
        /\ IF got.error # ""
           THEN /\ qpc' = [qpc EXCEPT ![t] = "done"]
                /\ outcome' = [outcome EXCEPT ![t] = got.error]
                /\ fref' = [fref EXCEPT ![t] = 0]
                /\ qheap' = [qheap EXCEPT ![t] = <<>>]
           ELSE /\ qpc' = [qpc EXCEPT ![t] = "normalized"]
                /\ fref' = [fref EXCEPT ![t] = own_ref(got.ref)]
                /\ qheap' = [qheap EXCEPT ![t] = own_frames(got.st, got.ref)]
                /\ UNCHANGED outcome
    /\ UNCHANGED <<qargs, filtered, fig, table, columns>>
    /\ UNCHANGED <<workbook, lpc, min_date, max_date, three_months_ago>>
    /\ UNCHANGED <<fetchVars, cacheVars>>

\* Lines 219-250 of request t: the figure, the table, the return or the
\* exception.
Table(t) ==
    /\ qpc[t] = "normalized"
    /\ \E got \in {table_step(frames_of(t), fref[t], qargs[t].selected)} :
        /\ df_long' = got.st[df_long_ref]
        /\ df_long_default' = got.st[df_long_default_ref]
        /\ outcome' = [outcome EXCEPT ![t] = got.result.outcome]
        /\ fig' = [fig EXCEPT ![t] = got.result.fig]
        /\ table' = [table EXCEPT ![t] = got.result.table]
        /\ columns' = [columns EXCEPT ![t] = got.result.columns]
    /\ qpc' = [qpc EXCEPT ![t] = "done"]
    /\ fref' = [fref EXCEPT ![t] = 0]
    /\ qheap' = [qheap EXCEPT ![t] = <<>>]
    /\ UNCHANGED <<qargs, filtered>>
    /\ UNCHANGED <<workbook, lpc, min_date, max_date, three_months_ago>>
    /\ UNCHANGED <<fetchVars, cacheVars>>

\* The response is sent (line 250, or the error); the handler's locals go.
Respond(t) ==
    /\ qpc[t] = "done"
    /\ qpc' = [qpc EXCEPT ![t] = "idle"]
    /\ qargs' = [qargs EXCEPT ![t] = NoArgs]
    /\ filtered' = [filtered EXCEPT ![t] = <<>>]
    /\ outcome' = [outcome EXCEPT ![t] = "none"]
    /\ fig' = [fig EXCEPT ![t] = <<>>]
    /\ table' = [table EXCEPT ![t] = <<>>]
    /\ columns' = [columns EXCEPT ![t] = <<>>]
    /\ UNCHANGED <<fref, qheap>>
    /\ UNCHANGED <<loadVars, fetchVars, cacheVars>>

(***************************************************************************)
(* fetch_rainfall_data (lines 67-97) and extract_data (lines 100-109).     *)
(*                                                                         *)
(* A page is what requests.get meets: a connection failure, or HTML with   *)
(* its script blocks in document order. Of a script the model keeps        *)
(* whether its text holds the marker, whether it holds '"areas": [',       *)
(* whether a ']' follows that, and the entries between the two. An entry   *)
(* is an object literal the key-quoting of line 79 turns into JSON, or     *)
(* text that json.loads rejects after it (a ']' or 'word:' inside a        *)
(* string, a broken literal).                                              *)
(***************************************************************************)
JStr(s) == [json |-> "string", s |-> s]

\* JSON null (Python's None)
JNull == [json |-> "null", s |-> ""]

\* Python's truth value of a parsed JSON value (line 84: area['id'] and ...)
truthy(v) == v.json = "string" /\ v.s # ""

Titles == {" Maharashtra ", "Jammu & Kashmir (Ut)"}

\* Lines 85 and 95 on the titles of the model: strip, title-case, drop
\* " (Ut)", and "&" to "and" in a name that holds "Jammu".
canonical_state(title) ==
    CASE title = " Maharashtra " -> "Maharashtra"
      [] title = "Jammu & Kashmir (Ut)" -> "Jammu and Kashmir"

BalloonTexts ==
    {"Actual : 10.5 mm Normal : 12.0 mm Departure : -12%",
     "Actual : 3.0 mm",
     "Actual : 1.2.3 mm Normal : 2.0 mm Departure : 5%"}

\* extract_data on the texts of the model. A field without a match is None
\* (NaN in the frame); float('1.2.3') raises ValueError.
extract_data(balloon_text) ==
    CASE balloon_text = "Actual : 10.5 mm Normal : 12.0 mm Departure : -12%" ->
            [error |-> "", actual |-> Frac(21, 2), normal |-> Num(12), deviation |-> Num(-12)]
      [] balloon_text = "Actual : 3.0 mm" ->
            [error |-> "", actual |-> Num(3), normal |-> NaN, deviation |-> NaN]
      [] balloon_text = "Actual : 1.2.3 mm Normal : 2.0 mm Departure : 5%" ->
            [error |-> "ValueError", actual |-> NaN, normal |-> NaN, deviation |-> NaN]

AreaIds == {JStr("IN-MH"), JStr(""), JStr("null"), JNull}

Area(id, title, text) == [wellformed |-> TRUE, id |-> id, title |-> title, balloonText |-> text]

\* An entry json.loads rejects.
Malformed == [wellformed |-> FALSE, id |-> JNull, title |-> "", balloonText |-> ""]

Entries == {Area(i, t, b) : i \in AreaIds, t \in Titles, b \in BalloonTexts} \cup {Malformed}

Script(marker, areas_start, close_bracket, entries) ==
    [marker |-> marker, areas_start |-> areas_start, close_bracket |-> close_bracket,
     entries |-> entries]

PlainScript == Script(FALSE, FALSE, FALSE, <<>>)

NoPage == [status |-> "none", scripts |-> <<>>]

\* Line 73: soup.find('script', text=...): the first script whose text holds
\* the marker, or None (0).
find_script(scripts) ==
    IF \E i \in DOMAIN scripts : scripts[i].marker
    THEN CHOOSE i \in DOMAIN scripts :
            scripts[i].marker /\ \A j \in 1..(i - 1) : ~scripts[j].marker
    ELSE 0

RECURSIVE WellformedPrefix(_)
WellformedPrefix(entries) ==
    IF entries = <<>> \/ ~Head(entries).wellformed THEN <<>>
    ELSE <<Head(entries)>> \o WellformedPrefix(Tail(entries))

\* A parser that keeps what it read before the text it cannot parse.
json_loads_lenient(entries) == [error |-> "", areas |-> WellformedPrefix(entries)]

\* Lines 78-80: json.loads of the repaired literal: the list of area objects,
\* or JSONDecodeError for the whole text.
json_loads(entries) ==
    IF \E i \in DOMAIN entries : ~entries[i].wellformed
    THEN [error |-> "JSONDecodeError", areas |-> <<>>]
    ELSE [error |-> "", areas |-> entries]

\* A filter that drops only the ids it names.
is_retained_named_only(area) == area.id # JStr("") /\ area.id # JStr("null")

\* Line 84: if area['id'] and area['id'] != 'null'
is_retained(area) == truthy(area.id) /\ area.id # JStr("null")

\* Lines 82-92: the records of the retained areas in order; an exception of
\* extract_data ends the loop and the function.
rainfall_records(areas) ==
    LET kept == SelectSeq(areas, is_retained)
    IN  IF \E i \in DOMAIN kept : extract_data(kept[i].balloonText).error # ""
        THEN [error |-> "ValueError", records |-> <<>>]
        ELSE [error |-> "",
              records |-> [i \in DOMAIN kept |->
                  LET balloon_data == extract_data(kept[i].balloonText)
                  IN  [title |-> kept[i].title,
                       actual |-> balloon_data.actual,
                       normal |-> balloon_data.normal,
                       deviation |-> balloon_data.deviation]]]

NoFrame == [error |-> "", df |-> <<>>, requests |-> 0]

\* The function: its DataFrame, or the exception that ends it; `requests`
\* counts the HTTP requests it issued.
fetch_rainfall_data(pg) ==
    LET k == find_script(pg.scripts)
        script_tag == pg.scripts[k]
        parsed == json_loads(script_tag.entries)
        built == rainfall_records(parsed.areas)
        failed(e) == [error |-> e, df |-> <<>>, requests |-> 1]
    IN  IF pg.status # "ok" THEN failed("ConnectionError")          \* line 69
        ELSE IF k = 0 THEN failed("AttributeError")                 \* line 74
        ELSE IF ~script_tag.areas_start THEN failed("ValueError")   \* line 74
        ELSE IF ~script_tag.close_bracket THEN failed("ValueError") \* line 75
        ELSE IF parsed.error # "" THEN failed(parsed.error)         \* line 80
        ELSE IF built.error # "" THEN failed(built.error)           \* line 86
        ELSE IF built.records = <<>> THEN failed("KeyError")        \* line 95
        ELSE [error |-> "",
              df |-> [i \in DOMAIN built.records |->
                        [state |-> canonical_state(built.records[i].title),
                         actual |-> built.records[i].actual,
                         normal |-> built.records[i].normal,
                         deviation |-> built.records[i].deviation]],
              requests |-> 1]

Periods == {"D", "W", "M", "C"}

InitFetchVars ==
    /\ page = NoPage
    /\ fpc = "idle"
    /\ url = ""
    /\ fetch_outcome = "none"
    /\ fetch_df = <<>>
    /\ http_requests = 0

\* One call of the function body for a period, on the page the site serves.
FetchRainfallData ==
    /\ fpc = "idle"
    /\ \E rainfall_type \in Periods :
        LET res == fetch_rainfall_data(page)
        IN  /\ url' = rainfall_type
            /\ fetch_outcome' = (IF res.error = "" THEN "ok" ELSE res.error)
            /\ fetch_df' = res.df
            /\ http_requests' = http_requests + res.requests
    /\ fpc' = "done"
    /\ UNCHANGED page
    /\ UNCHANGED <<loadVars, queryVars, cacheVars>>

(***************************************************************************)
(* The memoized calls: cache.memoize() on load_data and on                 *)
(* fetch_rainfall_data (lines 17-21, 66-67), called at import (line 50)    *)
(* and by the rainfall callback (line 260).                                *)
(*                                                                         *)
(* The cache itself is the flask_caching extension, which is not part of   *)
(* the repository's files: lookup, expiry and store follow section 4.4 of  *)
(* the specification (an entry per key with expires_at = now + TTL, read   *)
(* while unexpired). The extension's own bookkeeping beyond that contract  *)
(* is not modelled. A value is named by the call that computed it and the  *)
(* number of the run.                                                      *)
(***************************************************************************)
\* The clock stops after two steps, when an entry stored at the start has
\* lived half its time and then expired.
MaxTime == 2 * TickStep

\* Half the configured timeout.
ShortTimeout == 300 \div 2

\* Line 17: 'CACHE_DEFAULT_TIMEOUT': 300
CACHE_DEFAULT_TIMEOUT == 300

Threads == 1..NumThreads

\* The periods the requests of the model ask for.
CachePeriods == {"D", "M"}

\* A key that leaves the arguments out.
cache_key_without_args(f, arg) == <<f, "">>

\* memoize keys an entry by the function and its arguments (lines 20-21,
\* 66-67).
cache_key(f, arg) == <<f, arg>>

CacheKeys == {cache_key("load_data", "")}
             \cup {cache_key("fetch_rainfall_data", p) : p \in CachePeriods}

NoValue == [f |-> "", arg |-> "", run |-> 0]

NoEntry == [present |-> FALSE, value |-> NoValue, expires |-> 0]

NoCall == [f |-> "", arg |-> "", kind |-> ""]

\* An entry is read while its expiry lies ahead.
is_fresh(e, t) == e.present /\ e.expires > t

\* The read of a key: an unexpired entry is a hit; an expired one is evicted
\* by the read.
cache_get(c, key, t) ==
    IF is_fresh(c[key], t)
    THEN [hit |-> TRUE, value |-> c[key].value, cache |-> c]
    ELSE [hit |-> FALSE, value |-> NoValue, cache |-> [c EXCEPT ![key] = NoEntry]]

\* The store of a result: the entry replaces the key's entry.
cache_set(c, key, value, t) ==
    [c EXCEPT ![key] = [present |-> TRUE, value |-> value,
                        expires |-> t + CACHE_DEFAULT_TIMEOUT]]

InitCacheVars ==
    /\ now = 0
    /\ cache = [k \in CacheKeys |-> NoEntry]
    /\ imported = FALSE
    /\ tpc = [t \in Threads |-> "idle"]
    /\ tcall = [t \in Threads |-> NoCall]
    /\ tlocal = [t \in Threads |-> NoValue]
    /\ tret = [t \in Threads |-> NoValue]
    /\ nruns = 0
    /\ completed = {}
    /\ race = [k \in CacheKeys |-> {}]

\* Line 50, at import and before any request: df_long = load_data(). The
\* cache is empty, so the function runs and its result is stored.
ImportModule ==
    /\ ~imported
    /\ imported' = TRUE
    /\ LET value == [f |-> "load_data", arg |-> "", run |-> 0]
       IN  /\ cache' = cache_set(cache, cache_key("load_data", ""), value, now)
           /\ completed' = completed \cup {value}
           /\ race' = [race EXCEPT ![cache_key("load_data", "")] = {value}]
    /\ UNCHANGED <<now, tpc, tcall, tlocal, tret, nruns>>
    /\ UNCHANGED <<loadVars, queryVars, fetchVars>>

\* Line 260: a request calls fetch_rainfall_data(rainfall_type): the lookup.
\* A fresh entry is returned at once; otherwise the function is to run, and
\* an expired entry is gone. `race` keeps, per key, the results computed
\* since an entry of the key was last found expired: the eviction leaves in
\* it the results that still wait to be stored.
Call(t) ==
    /\ imported
    /\ tpc[t] = "idle"
    /\ \E rainfall_type \in CachePeriods :
        LET key == cache_key("fetch_rainfall_data", rainfall_type)
            got == cache_get(cache, key, now)
            kind == IF got.hit THEN "hit"
                    ELSE IF cache[key].present THEN "expired" ELSE "absent"
        IN  /\ tcall' = [tcall EXCEPT ![t] = [f |-> "fetch_rainfall_data",
                            arg |-> rainfall_type, kind |-> kind]]
            /\ cache' = got.cache
            /\ race' = IF kind = "expired"
                       THEN [race EXCEPT ![key] =
                                {tlocal[u] : u \in {v \in Threads :
                                    /\ tpc[v] = "computed"
                                    /\ cache_key(tcall[v].f, tcall[v].arg) = key}}]
                       ELSE race
            /\ IF got.hit
               THEN /\ tpc' = [tpc EXCEPT ![t] = "returned"]
                    /\ tret' = [tret EXCEPT ![t] = got.value]
               ELSE /\ tpc' = [tpc EXCEPT ![t] = "computing"]
                    /\ UNCHANGED tret
    /\ UNCHANGED <<now, imported, tlocal, nruns, completed>>
    /\ UNCHANGED <<loadVars, queryVars, fetchVars>>

\* Lines 67-97 run to their return: a result of this call.
ComputeOk(t) ==
    /\ tpc[t] = "computing"
    /\ nruns < MaxRuns
    /\ LET value == [f |-> tcall[t].f, arg |-> tcall[t].arg, run |-> nruns + 1]
       IN  /\ tlocal' = [tlocal EXCEPT ![t] = value]
           /\ completed' = completed \cup {value}
           /\ race' = [race EXCEPT ![cache_key(tcall[t].f, tcall[t].arg)] = @ \cup {value}]
    /\ nruns' = nruns + 1
    /\ tpc' = [tpc EXCEPT ![t] = "computed"]
    /\ UNCHANGED <<now, cache, imported, tcall, tret>>
    /\ UNCHANGED <<loadVars, queryVars, fetchVars>>

\* Lines 67-97 raise: the exception passes through the decorator and the
\* callback, nothing is stored and the request is over.
ComputeFail(t) ==
    /\ tpc[t] = "computing"
    /\ tpc' = [tpc EXCEPT ![t] = "idle"]
    /\ tcall' = [tcall EXCEPT ![t] = NoCall]
    /\ UNCHANGED <<now, cache, imported, tlocal, tret, nruns, completed, race>>
    /\ UNCHANGED <<loadVars, queryVars, fetchVars>>

\* The decorator stores the result under the call's key and returns it.
Store(t) ==
    /\ tpc[t] = "computed"
    /\ cache' = cache_set(cache, cache_key(tcall[t].f, tcall[t].arg), tlocal[t], now)
    /\ tret' = [tret EXCEPT ![t] = tlocal[t]]
    /\ tpc' = [tpc EXCEPT ![t] = "returned"]
    /\ UNCHANGED <<now, imported, tcall, tlocal, nruns, completed, race>>
    /\ UNCHANGED <<loadVars, queryVars, fetchVars>>

\* The callback answers (lines 262-295); the request is over.
Finish(t) ==
    /\ tpc[t] = "returned"
    /\ tpc' = [tpc EXCEPT ![t] = "idle"]
    /\ tcall' = [tcall EXCEPT ![t] = NoCall]
    /\ tlocal' = [tlocal EXCEPT ![t] = NoValue]
    /\ tret' = [tret EXCEPT ![t] = NoValue]
    /\ UNCHANGED <<now, cache, imported, nruns, completed, race>>
    /\ UNCHANGED <<loadVars, queryVars, fetchVars>>

\* Time passes.
Tick ==
    /\ now + TickStep <= MaxTime
    /\ now' = now + TickStep
    /\ UNCHANGED <<cache, imported, tpc, tcall, tlocal, tret, nruns, completed, race>>
    /\ UNCHANGED <<loadVars, queryVars, fetchVars>>

(***************************************************************************)
(* Specifications.                                                         *)
(***************************************************************************)
\* Blocks of at most MaxCols date columns, the first in the first week, at
\* most MaxGap days apart, any cell missing.
InitLoad ==
    /\ InitFetchVars
    /\ InitCacheVars
    /\ \E n \in 0..MaxCols : \E d0 \in 0..6 :
       \E gaps \in [1..(n - 1) -> 1..MaxGap] :
       \E cells \in [1..n -> [Commodities -> CellValues]] :
          workbook = SmallBlock(n, d0, gaps, cells)
    /\ InitLoadVars
    /\ InitQueryVars

NextLoad == LoadData \/ ModuleInit

SpecLoad == InitLoad /\ [][NextLoad]_vars

InitQuery ==
    /\ InitFetchVars
    /\ InitCacheVars
    /\ workbook \in {WeeklyWorkbook(g) : g \in GapChoices}
    /\ InitLoadVars
    /\ InitQueryVars

\* One request after the other, over every selection and range.
NextQuery ==
    \/ LoadData
    \/ ModuleInit
    \/ Begin(1, Selections, SliderRanges)
    \/ Normalize(1)
    \/ Table(1)
    \/ Respond(1)

SpecQuery == InitQuery /\ [][NextQuery]_vars

\* Requests served at the same time, their steps interleaved.
InitShared ==
    /\ InitFetchVars
    /\ InitCacheVars
    /\ workbook = WeeklyWorkbook({})
    /\ InitLoadVars
    /\ InitQueryVars

NextShared ==
    \/ LoadData
    \/ ModuleInit
    \/ \E t \in QueryThreads : Begin(t, RaceSelections, RaceRanges)
    \/ \E t \in QueryThreads : Normalize(t)
    \/ \E t \in QueryThreads : Table(t)
    \/ \E t \in QueryThreads : Respond(t)

SpecShared == InitShared /\ [][NextShared]_vars

\* Pages: no connection; or up to one script without the marker, then
\* possibly one with it, holding at most MaxAreas entries.
InitFetch ==
    /\ \/ page = [status |-> "ConnectionError", scripts |-> <<>>]
       \/ \E plain \in 0..1 : page = [status |-> "ok", scripts |-> [i \in 1..plain |-> PlainScript]]
       \/ \E plain \in 0..1, areas_start \in BOOLEAN, close_bracket \in BOOLEAN :
          \E n \in 0..MaxAreas : \E entries \in [1..n -> Entries] :
             page = [status |-> "ok",
                     scripts |-> [i \in 1..plain |-> PlainScript]
                                 \o <<Script(TRUE, areas_start, close_bracket, entries)>>]
    /\ fpc = "idle"
    /\ url = ""
    /\ fetch_outcome = "none"
    /\ fetch_df = <<>>
    /\ http_requests = 0
    /\ InitLoadVars
    /\ workbook = <<>>
    /\ InitQueryVars
    /\ InitCacheVars

NextFetch == FetchRainfallData

SpecFetch == InitFetch /\ [][NextFetch]_vars

InitCache ==
    /\ InitCacheVars
    /\ InitFetchVars
    /\ InitLoadVars
    /\ workbook = <<>>
    /\ InitQueryVars

NextCache ==
    \/ ImportModule
    \/ \E t \in Threads : Call(t)
    \/ \E t \in Threads : ComputeOk(t)
    \/ \E t \in Threads : ComputeFail(t)
    \/ \E t \in Threads : Store(t)
    \/ \E t \in Threads : Finish(t)
    \/ Tick

SpecCache == InitCache /\ [][NextCache]_vars

(***************************************************************************)
(* Properties of the memoized calls.                                       *)
(***************************************************************************)
\* The key of the entry a call reads and writes, as the claims name it: one
\* per function and period.
KeyOf(c) == cache_key(c.f, c.arg)

\* The step of thread t from a to b.
Moves(t, a, b) == tpc[t] = a /\ tpc'[t] = b

\* The lookup of a call: with an unexpired entry for the key the call
\* returns the entry's value and nothing runs; otherwise the function is to
\* run, and the key is left without an entry.
LookupStep(t) ==
    LET c == tcall'[t]
        e == cache[KeyOf(c)]
    IN  /\ c.f = "fetch_rainfall_data"
        /\ nruns' = nruns
        /\ IF e.present /\ now < e.expires
           THEN /\ tpc'[t] = "returned"
                /\ tret'[t] = e.value
                /\ tret'[t].arg = c.arg
                /\ cache' = cache
           ELSE /\ tpc'[t] = "computing"
                /\ cache' = [cache EXCEPT ![KeyOf(c)] = NoEntry]

\* One run per miss: a thread that computed returns next, and its store
\* leaves the result under the key with expiry now + 300.
StoreStep(t) ==
    LET k == KeyOf(tcall[t])
    IN  /\ tret'[t] = tlocal[t]
        /\ nruns' = nruns
        /\ cache'[k].present
        /\ cache'[k].value = tlocal[t]
        /\ cache'[k].expires = now + 300
        /\ \A other \in CacheKeys \ {k} : cache'[other] = cache[other]

\* C1: a call made while an unexpired entry exists for its key returns the
\* stored value without running the function; a call made with no entry or
\* an entry 300 seconds old or older runs the function once, stores the
\* result with expiry now + 300 and returns it; a call for one period never
\* returns the value stored for another period. The first call of load_data,
\* at import, stores its result with expiry now + 300.
C1_MemoizeContract ==
    [][/\ \A t \in Threads :
            /\ (tpc[t] = "idle" /\ tpc'[t] # "idle") => LookupStep(t)
            /\ Moves(t, "computing", "computed") =>
                    /\ nruns' = nruns + 1
                    /\ tlocal'[t].arg = tcall[t].arg
                    /\ cache' = cache
            /\ tpc[t] = "computed" /\ tpc'[t] # "computed" =>
                    /\ tpc'[t] = "returned"
                    /\ StoreStep(t)
       /\ (~imported /\ imported') =>
            LET e == cache'[cache_key("load_data", "")]
            IN  e.present /\ e.expires = now + 300 /\ e.value \in completed'
      ]_vars

\* A call returned the stored value at an age under 300 seconds, and a call
\* for the same period made after the entry's expiry ran the function and
\* returned another value.
C1_Witness ==
    \E t1, t2 \in Threads :
        /\ tpc[t1] = "returned" /\ tcall[t1].kind = "hit"
        /\ tpc[t2] = "returned" /\ tcall[t2].kind = "expired"
        /\ tcall[t1].arg = tcall[t2].arg
        /\ tret[t1] # tret[t2]
        /\ cache[KeyOf(tcall[t2])].value = tret[t2]
        /\ cache[KeyOf(tcall[t2])].expires = now + 300

\* The callers of a key that have missed and not yet stored or failed.
InFlight(k) ==
    {t \in Threads : tpc[t] \in {"computing", "computed"} /\ KeyOf(tcall[t]) = k}

\* What the racing callers return and what the cache holds: a caller returns
\* the result of a complete run for its key, its own when it missed; an
\* entry holds a complete result for its key; and once the callers racing
\* on a key have all finished, the key has an entry and its value is one of
\* the results computed in the race, not the entry found expired.
RaceState ==
    /\ \A t \in Threads : tpc[t] = "returned" =>
            /\ tret[t] \in completed
            /\ tret[t].f = tcall[t].f
            /\ tret[t].arg = tcall[t].arg
            /\ tcall[t].kind # "hit" => tret[t] = tlocal[t]
    /\ \A p \in CachePeriods :
            LET k == cache_key("fetch_rainfall_data", p)
                e == cache[k]
            IN  /\ e.present =>
                    /\ e.value \in completed
                    /\ e.value.f = "fetch_rainfall_data"
                    /\ e.value.arg = p
                /\ race[k] \subseteq {v \in completed : v.arg = p}
                /\ (InFlight(k) = {} /\ race[k] # {}) =>
                    /\ e.present
                    /\ e.value \in race[k]

\* C2: when calls for the same absent or expired key interleave, the
\* function may run more than once; every caller that returns, returns the
\* result of a complete run for its key (its own run when it missed), and
\* after all of them have finished the key has one entry, whose value is one
\* of the results computed in the race.
C2_RaceIsSafe == RaceState

\* An entry expired; one caller found it expired and another, before any
\* result was stored, found the key empty; both ran the function and
\* returned their own, different results, and the key's entry holds one of
\* the two.
C2_Witness ==
    \E t1, t2 \in Threads :
        /\ t1 # t2
        /\ tpc[t1] = "returned" /\ tcall[t1].kind = "expired"
        /\ tpc[t2] = "returned" /\ tcall[t2].kind = "absent"
        /\ tcall[t1].arg = tcall[t2].arg
        /\ tret[t1] # tret[t2]
        /\ {tret[t1], tret[t2]} \subseteq race[KeyOf(tcall[t1])]
        /\ InFlight(KeyOf(tcall[t1])) = {}
        /\ cache[KeyOf(tcall[t1])].present
        /\ cache[KeyOf(tcall[t1])].value \in {tret[t1], tret[t2]}

(***************************************************************************)
(* Properties of fetch_rainfall_data.                                      *)
(***************************************************************************)
FetchDone == fpc = "done"

MarkedScripts == {i \in DOMAIN page.scripts : page.scripts[i].marker}

\* The literal the function takes: of the first script with the marker.
Literal == page.scripts[Min(MarkedScripts)].entries

\* The HTTP request fails, no script holds the marker, or the literal cannot
\* be cut out or parsed.
ScrapeFails ==
    \/ page.status # "ok"
    \/ MarkedScripts = {}
    \/ ~page.scripts[Min(MarkedScripts)].areas_start
    \/ ~page.scripts[Min(MarkedScripts)].close_bracket
    \/ \E i \in DOMAIN Literal : ~Literal[i].wellformed

\* C3: when the request fails, no script holds the marker or the literal is
\* unparsable, the fetch ends in an error, returns no record and has issued
\* exactly one request.
C3_AllOrNothing ==
    (FetchDone /\ ScrapeFails)
    => /\ fetch_outcome \notin {"ok", "none"}
       /\ fetch_df = <<>>
       /\ http_requests = 1

\* A literal whose first entry is a retained area with a readable balloon
\* text and whose second entry cannot be parsed: the fetch failed.
C3_Witness ==
    /\ FetchDone
    /\ page.status = "ok"
    /\ MarkedScripts # {}
    /\ Len(Literal) = 2
    /\ Literal[1].wellformed /\ is_retained(Literal[1])
    /\ extract_data(Literal[1].balloonText).error = ""
    /\ ~Literal[2].wellformed
    /\ fetch_outcome = "JSONDecodeError"

\* The canonical names of the areas, in order.
StatesOf(areas) == [i \in DOMAIN areas |-> canonical_state(areas[i].title)]

OutputStates == [i \in DOMAIN fetch_df |-> fetch_df[i].state]

IdNamedInClaim(area) == area.id = JStr("") \/ area.id = JStr("null")

IdNotNamedInClaim(area) == ~IdNamedInClaim(area)

IdFalsyOrNull(area) == area.id = JStr("") \/ area.id = JNull \/ area.id = JStr("null")

IdNotFalsyOrNull(area) == ~IdFalsyOrNull(area)

\* C4 as claimed: the output holds, once each and in input order, exactly the
\* areas whose id is neither the empty string nor the string "null".
C4_DropsOnlyEmptyAndNullString ==
    (FetchDone /\ fetch_outcome = "ok")
    => OutputStates = StatesOf(SelectSeq(Literal, IdNotNamedInClaim))

\* C4 as amended: the output of a fetch that returns holds, once each and in
\* input order, exactly the areas whose id is not falsy (the empty string,
\* JSON null) and not the string "null".
C4_DropsFalsyAndNullString ==
    (FetchDone /\ fetch_outcome = "ok")
    => OutputStates = StatesOf(SelectSeq(Literal, IdNotFalsyOrNull))

\* A fetch that returned one record from a literal of two areas, the other
\* one dropped for its id.
C4_Witness ==
    /\ FetchDone
    /\ fetch_outcome = "ok"
    /\ Len(Literal) = 2
    /\ Len(fetch_df) = 1
    /\ \E i \in 1..2 : IdFalsyOrNull(Literal[i])

(***************************************************************************)
(* Properties of update_graph_and_table.                                   *)
(***************************************************************************)
QueryDone(t) == qpc[t] = "done"

StartDate(t) == min_date + qargs[t].range[1]

EndDate(t) == min_date + qargs[t].range[2]

\* The rows of the loaded series for commodity c in the window of query t.
WindowPoints(t, c) ==
    SelectSeq(df_long, LAMBDA r : /\ r.Commodity = c
                                  /\ r.Date >= StartDate(t)
                                  /\ r.Date <= EndDate(t))

\* (p[i] - p[i-1]) / p[i-1] * 100 over the last 5 points of c, rounded to 2
\* decimals, oldest first.
ExpectedChanges(t, c) ==
    LET p == tail(WindowPoints(t, c), 5)
    IN  [i \in 1..4 |->
            Round2(FMul(FDiv(FSub(p[i + 1].Price, p[i].Price), p[i].Price), Num(100)))]

HasRowWith(t, c, cells) ==
    \E k \in DOMAIN table[t] : table[t][k].Commodity = c /\ table[t][k].cells = cells

\* C5: with normalization on, a selected commodity without rows in the window
\* raises no error (it is left out of the normalization).
C5_EmptyCommodityOmitted ==
    \A t \in QueryThreads :
        (QueryDone(t) /\ qargs[t].selected # <<>> /\ qargs[t].normalize
           /\ \E c \in Range(qargs[t].selected) : WindowPoints(t, c) = <<>>)
        => outcome[t] = "ok"

\* C6: a non-empty selection whose commodities have fewer than 5 points in
\* the window completes without error.
C6_FewPointsDegrade ==
    \A t \in QueryThreads :
        (QueryDone(t) /\ qargs[t].selected # <<>>
           /\ \A c \in Range(qargs[t].selected) : Len(WindowPoints(t, c)) < 5)
        => outcome[t] = "ok"

\* C7: every selected commodity with at least 5 points in the window has a
\* row of exactly 4 values, the changes between its own last 5 prices, oldest
\* first.
C7_PctChangeRows ==
    \A t \in QueryThreads :
        (QueryDone(t) /\ qargs[t].selected # <<>>)
        => \A c \in Range(qargs[t].selected) :
              Len(WindowPoints(t, c)) >= 5
              => /\ outcome[t] = "ok"
                 /\ HasRowWith(t, c, ExpectedChanges(t, c))
                 /\ \A i \in 1..4 : ~IsNaN(ExpectedChanges(t, c)[i])

\* C7 where the loaded series has no NaN price: the claim holds there.
C7_OnSeriesWithoutNaN ==
    (\A i \in DOMAIN df_long : ~IsNaN(df_long[i].Price)) => C7_PctChangeRows

\* The answer request t holds when it is done.
Answer(t) ==
    [outcome |-> outcome[t], fig |-> fig[t], table |-> table[t], columns |-> columns[t]]

\* C9: no query changes the shared series: once the module is loaded, every
\* step of every request, however the requests interleave, leaves df_long
\* and df_long_default as they were; and two requests with the same
\* arguments hold the same answer, whatever ran before or between them.
C9_SharedSeriesUnchanged ==
    /\ [][lpc = "ready" => (df_long' = df_long /\ df_long_default' = df_long_default)]_vars
    /\ [](\A t1, t2 \in QueryThreads :
            (QueryDone(t1) /\ QueryDone(t2) /\ qargs[t1] = qargs[t2])
            => Answer(t1) = Answer(t2))

\* One request has overwritten the prices of its copies and holds the
\* rebased concatenation, while another, begun meanwhile, holds rows it
\* filtered from the same shared table, among them rows the first rebased.
C9_Witness ==
    \E t1, t2 \in QueryThreads :
        /\ t1 # t2
        /\ qpc[t1] = "normalized"
        /\ qargs[t1].normalize
        /\ qheap[t1] # <<filtered[t1]>>
        /\ qpc[t2] = "filtered"
        /\ qargs[t2].range = qargs[t1].range
        /\ \E i \in DOMAIN filtered[t1] : \E j \in DOMAIN filtered[t2] :
              /\ filtered[t1][i] = filtered[t2][j]
              /\ \E k \in DOMAIN qheap[t1][1] :
                    /\ qheap[t1][1][k].Date = filtered[t1][i].Date
                    /\ qheap[t1][1][k].Commodity = filtered[t1][i].Commodity
                    /\ qheap[t1][1][k].Price # filtered[t1][i].Price

\* C10: whichever branch filters, the filtered rows are the rows of the full
\* series with a selected commodity and start <= date <= end, in order.
C10_BranchesEquivalent ==
    \A t \in QueryThreads :
        QueryDone(t)
        => filtered[t] = SelectSeq(df_long, LAMBDA r :
                         /\ \E i \in DOMAIN qargs[t].selected : qargs[t].selected[i] = r.Commodity
                         /\ StartDate(t) <= r.Date
                         /\ r.Date <= EndDate(t))

\* A query filtered by the pre-sliced table, starting on three_months_ago
\* itself, a date of the series, with rows before it in the full series.
C10_Witness ==
    \E t \in QueryThreads :
        /\ QueryDone(t)
        /\ StartDate(t) = three_months_ago
        /\ filtered[t] # <<>>
        /\ filtered[t][1].Date = three_months_ago
        /\ \E i \in DOMAIN df_long : df_long[i].Date < three_months_ago

\* A query filtered by the full table that kept rows before three_months_ago.
C10_WitnessFullBranch ==
    \E t \in QueryThreads :
        /\ QueryDone(t)
        /\ StartDate(t) < three_months_ago
        /\ filtered[t] # <<>>
        /\ filtered[t][1].Date < three_months_ago

(***************************************************************************)
(* Properties of load_data.                                                *)
(***************************************************************************)
\* C8: no record of the loaded series has a NaN price.
C8_NoNaNPrice ==
    lpc \in {"loaded", "ready"} => \A i \in DOMAIN df_long : ~IsNaN(df_long[i].Price)

====
